---- MODULE Spec2Model ----
(***************************************************************************)
(* A model of the square-images application (src/src/app.rs, the desktop   *)
(* variant, and src/src/main.rs, the browser variant).                     *)
(*                                                                         *)
(* The component state of App (readers, files, tile, new_files, props) is  *)
(* the state of the machine; one action stands for one message handler of  *)
(* App::update or one click/drop callback of App::view, taken as a whole.  *)
(* The compositing done by App::convert (image::imageops::tile, then       *)
(* image::imageops::overlay) is computed pixel by pixel.                   *)
(*                                                                         *)
(* A pixel is [c, a]: one colour channel standing for the three colour     *)
(* channels, which the image crate treats alike, and the alpha channel.    *)
(* File bytes are [enc, img]: the encoding the bytes really are in and the *)
(* image they encode ("bad" bytes encode nothing).                         *)
(***************************************************************************)
EXTENDS Integers, Sequences, FiniteSets, TLC

VARIABLES
    variant,     \* "app" (src/src/app.rs) or "main" (src/src/main.rs)
    readers,     \* App.readers: file name -> the pending read it guards
    files,       \* App.files
    tile,        \* App.tile (NoTile for None)
    new_files,   \* App.new_files
    loading,     \* App.props.loading   (app.rs only; FALSE in main.rs)
    converting,  \* App.props.converting (app.rs only; FALSE in main.rs)
    crashed,     \* a panic has unwound out of a callback
    clicks,      \* history: the Convert clicks so far, one record each:
                 \* the files and tile given to convert_files, the message
                 \* it returned (or "Panic", or "Disabled" for the no-op
                 \* callback), its Vec<File>, Len(new_files) and whether
                 \* a processed file was being read at the click, and
                 \* whether update asked for a re-render
    uploads,     \* history: number of files dropped or selected so far
    aborted,     \* history: the reads whose FileReader was dropped while
                 \* the read was pending (replaced in readers)
    latest_tile  \* history: the file of the latest Msg::Tile(Some(file))

vars == <<variant, readers, files, tile, new_files, loading, converting,
          crashed, clicks, uploads, aborted, latest_tile>>

-----------------------------------------------------------------------------
(* Bounds of the model. *)

\* Largest width and height of an uploaded image.
MaxDim == 3
\* Largest number of files dropped or selected (tile and source files).
MaxUploads == 3
\* Largest number of clicks on Convert.
MaxClicks == 2

(* Constants of the program and of the image crate it calls. *)

\* u8::DEFAULT_MAX_VALUE, the channel maximum of the Rgba8 canvas.
MaxChannel == 255
\* The box the tile is resized to fit in (app.rs).
TileBox == 256
\* ctx.props().converting: the Properties the component is mounted with,
\* Props::default() (yew::Renderer::<App>::new()), never written afterwards.
CtxConverting == FALSE

MaxFirst(a, b) == a

Max(a, b) == IF a >= b THEN a ELSE b
Min(a, b) == IF a <= b THEN a ELSE b

-----------------------------------------------------------------------------
(* Images. *)

Coords(w, h) == (0 .. w - 1) \X (0 .. h - 1)

\* image::RgbaImage::new(w, h): a zeroed (transparent black) canvas.
NewImage(w, h) ==
    [w |-> w, h |-> h, px |-> [p \in Coords(w, h) |-> [c |-> 0, a |-> 0]]]

NoImage == NewImage(0, 0)

\* Pixel::blend of Rgba<u8> (src-over compositing of `fg` onto `bg`).  The
\* crate returns bg for a transparent fg, fg for an opaque fg, and otherwise
\* computes in f32 and truncates; the quotients below are the exact values,
\* truncated, which is what the f32 computation yields for the alpha levels
\* of the catalogue (0, 64, MaxChannel).
BlendOverwrite(bg, fg) == fg

Blend(bg, fg) ==
    IF fg.a = 0 THEN bg
    ELSE IF fg.a = MaxChannel THEN fg
    ELSE LET af == MaxChannel * bg.a + MaxChannel * fg.a - bg.a * fg.a
         IN  IF af = 0 THEN bg
             ELSE [c |-> (MaxChannel * fg.c * fg.a
                          + bg.c * bg.a * (MaxChannel - fg.a)) \div af,
                   a |-> af \div MaxChannel]

\* image::imageops::overlay(bottom, top, x, y) for x, y >= 0: the part of
\* top that falls inside bottom is blended onto it, the rest is cropped.
Overlay(bottom, top, x, y) ==
    [bottom EXCEPT !.px =
        [p \in Coords(bottom.w, bottom.h) |->
            IF /\ x <= p[1] /\ p[1] < x + top.w
               /\ y <= p[2] /\ p[2] < y + top.h
            THEN Blend(bottom.px[p], top.px[<<p[1] - x, p[2] - y>>])
            ELSE bottom.px[p]]]

\* image::imageops::tile(bottom, top):
\*   for x in (0..bottom.width()).step_by(top.width())
\*     for y in (0..bottom.height()).step_by(top.height())
\*       overlay(bottom, top, x, y)
\* step_by(0) panics; TilePanics says when the loops reach one.
TilePanics(bottom, top) ==
    \/ top.w = 0
    \/ (bottom.w > 0 /\ top.h = 0)

RECURSIVE TileFrom(_, _, _, _)
TileFrom(bottom, top, x, y) ==
    IF x >= bottom.w THEN bottom
    ELSE IF y >= bottom.h THEN TileFrom(bottom, top, x + top.w, 0)
    ELSE TileFrom(Overlay(bottom, top, x, y), top, x, y + top.h)

TileOnce(bottom, top) == Overlay(bottom, top, 0, 0)

Tile(bottom, top) == TileFrom(bottom, top, 0, 0)

-----------------------------------------------------------------------------
(* The tile as convert_files prepares it. *)

\* resize_dimensions(w, h, TileBox, TileBox, fill = false) of the image
\* crate, for w, h >= 1: the largest size of the same aspect ratio that
\* fits the box, each side rounded to nearest and at least 1.
RoundDiv(n, d) == (2 * n + d) \div (2 * d)

ResizeDimensions(w, h) ==
    IF w >= h
    THEN <<TileBox, Max(RoundDiv(h * TileBox, w), 1)>>
    ELSE <<Max(RoundDiv(w * TileBox, h), 1), TileBox>>

\* DynamicImage::resize(TileBox, TileBox, FilterType::Nearest) of an image
\* with w, h >= 1: output pixel (x, y) is the input pixel under the centre
\* of the output pixel, floor((x + 0.5) * w / nw), clamped to the image.
Resize(img) ==
    LET d  == ResizeDimensions(img.w, img.h)
        nw == d[1]
        nh == d[2]
    IN  [w |-> nw, h |-> nh,
         px |-> [p \in Coords(nw, nh) |->
                   img.px[<<Min(((2 * p[1] + 1) * img.w) \div (2 * nw), img.w - 1),
                            Min(((2 * p[2] + 1) * img.h) \div (2 * nh), img.h - 1)>>]]]

-----------------------------------------------------------------------------
(* Files, and the Image Loader. *)

\* FileDetails { name, file_type, data }
FileDetails(name, file_type, data) ==
    [name |-> name, file_type |-> file_type, data |-> data]

NoTile == FileDetails("", "", [enc |-> "none", img |-> NoImage])

\* ImageFormat::from_mime_type: None for a MIME type no decoder is mapped to.
FromMimeType(file_type) ==
    CASE file_type = "image/png"  -> "Png"
      [] file_type = "image/jpeg" -> "Jpeg"
      [] OTHER                    -> "None"

\* image::load_from_memory_with_format(data, format) is Ok exactly when the
\* bytes are a valid encoding of `format`.
LoadsWithFormat(data, format) == data.enc = format

\* image::load_from_memory(data) guesses the format from the bytes and is
\* Ok when they are a valid encoding of a supported format; no MIME type is
\* consulted.
LoadsFromMemory(data) == data.enc \in {"Png", "Jpeg"}

-----------------------------------------------------------------------------
(* App::convert (the Square Compositor and the Encoder). *)

\* ((max - width) / 2, (max - height) / 2), truncating division on u32.
OffsetCeil(max, side) == (max - side + 1) \div 2

Offset(max, side) == (max - side) \div 2

\* The canvas convert builds from the decoded source `old` and the tile.
CompositeCropped(old, ptile) ==
    LET min == Min(old.w, old.h)
    IN  Overlay(Tile(NewImage(min, min), ptile), old, 0, 0)

Composite(old, ptile) ==
    LET max   == Max(old.w, old.h)
        new   == NewImage(max, max)
        tiled == Tile(new, ptile)
    IN  Overlay(tiled, old, Offset(max, old.w), Offset(max, old.h))

\* The places where convert panics: the two unwraps of the decode, the
\* step_by(0) of imageops::tile, and the unwrap of write_to (the PNG encoder
\* refuses an image with a zero side).
ConvertPanics(file, ptile) ==
    LET format == FromMimeType(file.file_type)
    IN  \/ format = "None"
        \/ ~LoadsWithFormat(file.data, format)
        \/ LET old == file.data.img
               max == Max(old.w, old.h)
           IN  \/ TilePanics(NewImage(max, max), ptile)
               \/ max = 0

\* The gloo File convert returns: the source's name and MIME type, and the
\* canvas encoded as PNG.
ConvertUnnamed(file, ptile) ==
    [name      |-> "",
     file_type |-> file.file_type,
     data      |-> [enc |-> "Png", img |-> Composite(file.data.img, ptile)]]

Convert(file, ptile) ==
    [name      |-> file.name,
     file_type |-> file.file_type,
     data      |-> [enc |-> "Png", img |-> Composite(file.data.img, ptile)]]

-----------------------------------------------------------------------------
(* App::convert_files (the Batch Driver). *)

\* The size resize_dimensions gives for an image with a zero side (0 * inf
\* is NaN, which rounds to 0 and is raised to 1).
EmptyResizeDimensions(w, h) ==
    <<IF w = 0 THEN 1 ELSE TileBox, IF h = 0 THEN 1 ELSE TileBox>>

\* How the tile is decoded and prepared: [st, img] with st "ok", "noop"
\* (the handled Err arm of app.rs) or "panic" (an unwrap).  Resizing an image
\* with a zero side either panics or yields a blank image, depending on the
\* release of the image crate the build links: emptyResize is that choice.
PrepareTile(t, v, emptyResize) ==
    IF v = "main"
    THEN LET format == FromMimeType(t.file_type)
         IN  IF format = "None" \/ ~LoadsWithFormat(t.data, format)
             THEN [st |-> "panic", img |-> NoImage]
             ELSE [st |-> "ok", img |-> t.data.img]
    ELSE IF ~LoadsFromMemory(t.data)
         THEN [st |-> "noop", img |-> NoImage]
         ELSE LET img == t.data.img
              IN  IF img.w = 0 \/ img.h = 0
                  THEN IF emptyResize = "panic"
                       THEN [st |-> "panic", img |-> NoImage]
                       ELSE LET d == EmptyResizeDimensions(img.w, img.h)
                            IN  [st |-> "ok", img |-> NewImage(d[1], d[2])]
                  ELSE [st |-> "ok", img |-> Resize(img)]

\* convert_files(files, tile, converting): the message it returns, or the
\* panic it ends in.  [msg, out]: out is the Vec<File> of ConvertedFiles.
ConvertFilesTileConsumed(fs, t, conv, v, emptyResize) ==
    IF conv THEN [msg |-> "NoOp", out |-> <<>>]
    ELSE IF t = NoTile THEN [msg |-> "NoOp", out |-> <<>>]
    ELSE LET pt == PrepareTile(t, v, emptyResize)
         IN  IF pt.st = "noop" THEN [msg |-> "NoOp", out |-> <<>>]
             ELSE IF pt.st = "panic" THEN [msg |-> "Panic", out |-> <<>>]
             ELSE IF \E i \in 1 .. Len(fs) : ConvertPanics(fs[i], pt.img)
                  THEN [msg |-> "Panic", out |-> <<>>]
                  ELSE [msg |-> "ConvertedFiles",
                        out |-> [i \in 1 .. Len(fs) |->
                                   Convert(fs[i],
                                           IF i = 1 THEN pt.img
                                           ELSE Convert(fs[i - 1], pt.img).data.img)]]

ConvertFiles(fs, t, conv, v, emptyResize) ==
    IF conv THEN [msg |-> "NoOp", out |-> <<>>]
    ELSE IF t = NoTile THEN [msg |-> "NoOp", out |-> <<>>]
    ELSE LET pt == PrepareTile(t, v, emptyResize)
         IN  IF pt.st = "noop" THEN [msg |-> "NoOp", out |-> <<>>]
             ELSE IF pt.st = "panic" THEN [msg |-> "Panic", out |-> <<>>]
             ELSE IF \E i \in 1 .. Len(fs) : ConvertPanics(fs[i], pt.img)
                  THEN [msg |-> "Panic", out |-> <<>>]
                  ELSE [msg |-> "ConvertedFiles",
                        out |-> [i \in 1 .. Len(fs) |-> Convert(fs[i], pt.img)]]

-----------------------------------------------------------------------------
(* The files a user can upload. *)

Patterns == {"opaque", "holes", "soft"}

\* The alpha of pixel p: every pixel opaque, or the pixels of even x + y
\* fully transparent ("holes") or partly transparent ("soft").
AlphaAt(pat, p) ==
    IF pat = "opaque" \/ (p[1] + p[2]) % 2 = 1 THEN MaxChannel
    ELSE IF pat = "holes" THEN 0 ELSE 64

\* A w x h picture whose pixels all differ: colour base + 10 x + y.
Picture(w, h, base, pat) ==
    [w |-> w, h |-> h,
     px |-> [p \in Coords(w, h) |->
               [c |-> base + 10 * p[1] + p[2], a |-> AlphaAt(pat, p)]]]

Png(img) == [enc |-> "Png", img |-> img]
BadBytes == [enc |-> "bad", img |-> NoImage]

Dims == 0 .. MaxDim

\* Every well-formed PNG source and tile up to MaxDim x MaxDim; among the
\* tiles, those with a zero side (the degenerate tile of the spec).
AllSources ==
    {FileDetails("a", "image/png", Png(Picture(w, h, 100, pat))) :
        w \in Dims \ {0}, h \in Dims \ {0}, pat \in Patterns}

AllTiles ==
    {FileDetails("t", "image/png", Png(Picture(w, h, 200, pat))) :
        w \in Dims, h \in Dims, pat \in Patterns}

\* The uploads of the application runs: sound and unsound files, and names
\* that collide.
SourceFiles ==
    {FileDetails("a", "image/png", Png(Picture(2, 1, 100, "soft"))),
     FileDetails("b", "image/png", Png(Picture(1, 2, 100, "opaque"))),
     FileDetails("a", "image/png", Png(Picture(1, 1, 100, "holes"))),
     FileDetails("c", "text/plain", BadBytes)}

TileFiles ==
    {FileDetails("t", "image/png", Png(Picture(2, 2, 200, "holes"))),
     FileDetails("u", "image/png", BadBytes),
     FileDetails("a", "text/plain", Png(Picture(1, 1, 200, "opaque")))}

Names == {"a", "b", "c", "t", "u"}

\* The file lists of a drop or a selection: up to two files, no file twice.
Lists(S) ==
    {<<>>} \cup {<<f>> : f \in S} \cup {fg \in S \X S : fg[1] # fg[2]}

-----------------------------------------------------------------------------
(* The readers map. *)

NoReaders == [n \in {} |-> NoTile]

\* gloo_file::callbacks::read_as_bytes(file, callback): the pending read
\* that will send Msg::Loaded(name, file_type, data, kind).
Read(f, kind) == [kind |-> kind, file_type |-> f.file_type, data |-> f.data]

\* HashMap::insert: an entry of the same name is replaced, and the
\* FileReader it held is dropped, which aborts that read.
Insert(rs, name, rd) ==
    [n \in DOMAIN rs \cup {name} |-> IF n = name THEN rd ELSE rs[n]]

\* HashMap::remove
Remove(rs, name) == [n \in DOMAIN rs \ {name} |-> rs[n]]

\* for file in files { ... self.readers.insert(name, task); }
RECURSIVE InsertAll(_, _, _)
InsertAll(rs, fs, kind) ==
    IF fs = <<>> THEN rs
    ELSE InsertAll(Insert(rs, Head(fs).name, Read(Head(fs), kind)), Tail(fs), kind)

\* The reads that InsertAll(rs, fs, kind) replaces while they are pending.
RECURSIVE Aborted(_, _, _)
Aborted(rs, fs, kind) ==
    IF fs = <<>> THEN {}
    ELSE LET name == Head(fs).name
         IN  (IF name \in DOMAIN rs
              THEN {[name |-> name, kind |-> rs[name].kind,
                     file_type |-> rs[name].file_type, data |-> rs[name].data]}
              ELSE {})
             \cup Aborted(Insert(rs, name, Read(Head(fs), kind)), Tail(fs), kind)

-----------------------------------------------------------------------------
(* App::create *)

Init ==
    /\ variant \in {"app", "main"}
    /\ readers = NoReaders
    /\ files = <<>>
    /\ tile = NoTile
    /\ new_files = <<>>
    /\ loading = (variant = "app")
    /\ converting = FALSE
    /\ crashed = FALSE
    /\ clicks = <<>>
    /\ uploads = 0
    /\ aborted = {}
    /\ latest_tile = NoTile

-----------------------------------------------------------------------------
(* App::update and the callbacks of App::view *)

\* A drop or a selection on the tile slot: upload_tile, then Msg::Tile.
DropTileAll(list) ==
    /\ ~crashed
    /\ uploads + Len(list) <= MaxUploads
    /\ uploads' = uploads + Len(list)
    /\ IF list = <<>>
       THEN UNCHANGED <<readers, loading, aborted, latest_tile>>
       ELSE /\ readers' = InsertAll(readers, list, "Tile")
            /\ loading' = (variant = "app")
            /\ aborted' = aborted \cup Aborted(readers, list, "Tile")
            /\ latest_tile' = list[Len(list)]
    /\ UNCHANGED <<variant, files, tile, new_files, converting, crashed, clicks>>

DropTile(list) ==
    /\ ~crashed
    /\ uploads + Len(list) <= MaxUploads
    /\ uploads' = uploads + Len(list)
    /\ IF list = <<>>
       THEN UNCHANGED <<readers, loading, aborted, latest_tile>>
       ELSE /\ readers' = Insert(readers, list[1].name, Read(list[1], "Tile"))
            /\ loading' = (variant = "app")
            /\ aborted' = aborted \cup Aborted(readers, <<list[1]>>, "Tile")
            /\ latest_tile' = list[1]
    /\ UNCHANGED <<variant, files, tile, new_files, converting, crashed, clicks>>

\* A drop or a selection on the originals slot: upload_files, then Msg::Files.
DropFiles(list) ==
    /\ ~crashed
    /\ uploads + Len(list) <= MaxUploads
    /\ readers' = InsertAll(readers, list, "File")
    /\ loading' = (variant = "app")
    /\ uploads' = uploads + Len(list)
    /\ aborted' = aborted \cup Aborted(readers, list, "File")
    /\ UNCHANGED <<variant, files, tile, new_files, converting, crashed, clicks,
                   latest_tile>>

\* Msg::Loaded(name, mime_type, data, FileType::Tile)
LoadedTile(name) ==
    /\ ~crashed
    /\ name \in DOMAIN readers
    /\ readers[name].kind = "Tile"
    /\ tile' = FileDetails(name, readers[name].file_type, readers[name].data)
    /\ readers' = Remove(readers, name)
    /\ loading' = (variant = "app" /\ DOMAIN readers' # {})
    /\ UNCHANGED <<variant, files, new_files, converting, crashed, clicks, uploads,
                   aborted, latest_tile>>

\* Msg::Loaded(name, mime_type, data, FileType::File)
LoadedFilePrepended(name) ==
    /\ ~crashed
    /\ name \in DOMAIN readers
    /\ readers[name].kind = "File"
    /\ files' = <<FileDetails(name, readers[name].file_type, readers[name].data)>>
                 \o files
    /\ readers' = Remove(readers, name)
    /\ loading' = (variant = "app" /\ DOMAIN readers' # {})
    /\ UNCHANGED <<variant, tile, new_files, converting, crashed, clicks, uploads,
                   aborted, latest_tile>>

LoadedFile(name) ==
    /\ ~crashed
    /\ name \in DOMAIN readers
    /\ readers[name].kind = "File"
    /\ files' = Append(files,
                       FileDetails(name, readers[name].file_type, readers[name].data))
    /\ readers' = Remove(readers, name)
    /\ loading' = (variant = "app" /\ DOMAIN readers' # {})
    /\ UNCHANGED <<variant, tile, new_files, converting, crashed, clicks, uploads,
                   aborted, latest_tile>>

\* Msg::Loaded(name, mime_type, data, FileType::Processed)
LoadedProcessedTwice(name) ==
    /\ ~crashed
    /\ name \in DOMAIN readers
    /\ readers[name].kind = "Processed"
    /\ LET f == FileDetails(name, readers[name].file_type, readers[name].data)
       IN  new_files' = Append(Append(new_files, f), f)
    /\ readers' = Remove(readers, name)
    /\ converting' = (variant = "app" /\ DOMAIN readers' # {})
    /\ UNCHANGED <<variant, files, tile, loading, crashed, clicks, uploads,
                   aborted, latest_tile>>

LoadedProcessed(name) ==
    /\ ~crashed
    /\ name \in DOMAIN readers
    /\ readers[name].kind = "Processed"
    /\ new_files' = Append(new_files,
                           FileDetails(name, readers[name].file_type, readers[name].data))
    /\ readers' = Remove(readers, name)
    /\ converting' = (variant = "app" /\ DOMAIN readers' # {})
    /\ UNCHANGED <<variant, files, tile, loading, crashed, clicks, uploads,
                   aborted, latest_tile>>

\* A click on Convert.  In app.rs the callback is Callback::noop() while
\* props.loading or props.converting; otherwise it runs convert_files on the
\* files and the tile of the last render and sends the message it returns:
\* Msg::ConvertedFiles starts one read per processed file, Msg::NoOp does
\* nothing, and a panic in convert_files sends nothing.
\* The value App::update returns for the message convert_files sent: false
\* (no re-render) for Msg::NoOp, true for Msg::ConvertedFiles; the no-op
\* callback and a panic send no message.
ShouldRender(msg) == msg = "ConvertedFiles"

ClickDisabledWhileLoading == variant = "app" /\ loading

ClickDisabled == variant = "app" /\ (loading \/ converting)

ClickConvert(emptyResize) ==
    /\ ~crashed
    /\ Len(clicks) < MaxClicks
    /\ LET r == IF ClickDisabled
                THEN [msg |-> "Disabled", out |-> <<>>]
                ELSE ConvertFiles(files, tile, CtxConverting, variant, emptyResize)
       IN  /\ clicks' = Append(clicks,
                               [msg |-> r.msg, files |-> files, tile |-> tile,
                                out |-> r.out, base |-> Len(new_files),
                                busy |-> \E n \in DOMAIN readers :
                                             readers[n].kind = "Processed",
                                render |-> ShouldRender(r.msg)])
           /\ crashed' = (r.msg = "Panic")
           /\ IF r.msg = "ConvertedFiles"
              THEN /\ converting' = (variant = "app")
                   /\ readers' = InsertAll(readers, r.out, "Processed")
                   /\ aborted' = aborted \cup Aborted(readers, r.out, "Processed")
              ELSE UNCHANGED <<converting, readers, aborted>>
    /\ UNCHANGED <<variant, files, tile, new_files, loading, uploads, latest_tile>>

Next ==
    \/ \E list \in Lists(TileFiles) : DropTile(list)
    \/ \E list \in Lists(SourceFiles) : DropFiles(list)
    \/ \E name \in Names : LoadedTile(name)
    \/ \E name \in Names : LoadedFile(name)
    \/ \E name \in Names : LoadedProcessed(name)
    \/ \E emptyResize \in {"panic", "blank"} : ClickConvert(emptyResize)

Spec == Init /\ [][Next]_vars

\* A read that is pending completes, and the message its callback sends is
\* processed: the browser fires the reader's load event and the scheduler
\* of the framework runs every message sent to the component.
Fairness ==
    \A name \in Names :
        /\ WF_vars(LoadedTile(name))
        /\ WF_vars(LoadedFile(name))
        /\ WF_vars(LoadedProcessed(name))

SpecLive == Spec /\ Fairness

-----------------------------------------------------------------------------
(* The compositor on its own: one source and one tile, any two well-formed  *)
(* pictures up to MaxDim x MaxDim, already uploaded and read; then Convert  *)
(* clicks and the reads of the processed files.                            *)

InitConvert ==
    /\ variant \in {"app", "main"}
    /\ readers = NoReaders
    /\ \E f \in AllSources : files = <<f>>
    /\ tile \in AllTiles
    /\ new_files = <<>>
    /\ loading = FALSE
    /\ converting = FALSE
    /\ crashed = FALSE
    /\ clicks = <<>>
    /\ uploads = 2
    /\ aborted = {}
    /\ latest_tile = tile

NextConvert ==
    \/ \E name \in Names : LoadedProcessed(name)
    \/ \E emptyResize \in {"panic", "blank"} : ClickConvert(emptyResize)

SpecConvert == InitConvert /\ [][NextConvert]_vars

-----------------------------------------------------------------------------
(* What the claims speak of. *)

\* The clicks that produced a batch of processed files.
Batches == {k \in 1 .. Len(clicks) : clicks[k].msg = "ConvertedFiles"}

\* The conversions done so far: click k, source i.
Conversions == {<<k, i>> : k \in Batches, i \in 1 .. MaxUploads} \cap
               UNION {{<<k, i>> : i \in 1 .. Len(clicks[k].files)} : k \in Batches}

SrcOf(kv) == clicks[kv[1]].files[kv[2]].data.img
OutOf(kv) == clicks[kv[1]].out[kv[2]].data.img
TileOf(kv) == clicks[kv[1]].tile.data.img

NonZero(img) == img.w > 0 /\ img.h > 0

\* The canvas coordinates the source is laid on, by the rule of the spec.
Side(img) == IF img.w >= img.h THEN img.w ELSE img.h
Left(img) == (Side(img) - img.w) \div 2
Top(img) == (Side(img) - img.h) \div 2
Covered(img, p) ==
    /\ Left(img) <= p[1] /\ p[1] < Left(img) + img.w
    /\ Top(img) <= p[2] /\ p[2] < Top(img) + img.h

\* The tile the sources of a batch are composited against: the decoded tile
\* in main.rs, the decoded tile resized to fit the box in app.rs.
\* (A tile with a zero side reaches convert only in app.rs, as the blank
\* image some releases of the crate resize it to.)
BatchTile(t) ==
    IF variant = "main" THEN t
    ELSE IF NonZero(t) THEN Resize(t)
    ELSE NewImage(EmptyResizeDimensions(t.w, t.h)[1],
                  EmptyResizeDimensions(t.w, t.h)[2])

TileUsed(kv) == BatchTile(TileOf(kv))

Transparent == [c |-> 0, a |-> 0]

\* The background of an output at p: the pixel of the tile used, at p modulo
\* the tile's size, laid on the transparent canvas.
Background(kv, p) ==
    LET t  == TileUsed(kv)
        tp == t.px[<<p[1] % t.w, p[2] % t.h>>]
    IN  IF tp.a = 0 THEN Transparent ELSE tp

\* Two pixels that show alike: equal, or both fully transparent.
SamePixel(p, q) == p = q \/ (p.a = 0 /\ q.a = 0)

\* Src-over compositing of a partly transparent pixel fg onto bg.
Mix(bg, fg) ==
    LET af == MaxChannel * (bg.a + fg.a) - bg.a * fg.a
    IN  [c |-> (MaxChannel * fg.c * fg.a + bg.c * bg.a * (MaxChannel - fg.a)) \div af,
         a |-> af \div MaxChannel]

-----------------------------------------------------------------------------
\* C1: for every decoded source (w x h) and every tile with nonzero
\* dimensions, the image convert produces is square, of side max(w, h).
C1_OutputIsSquareOfMaxSide ==
    \A kv \in Conversions :
        NonZero(TileOf(kv)) =>
            /\ OutOf(kv).w = Side(SrcOf(kv))
            /\ OutOf(kv).h = Side(SrcOf(kv))
            /\ DOMAIN OutOf(kv).px = Coords(Side(SrcOf(kv)), Side(SrcOf(kv)))

C1_Witness ==
    \E kv \in Conversions :
        /\ NonZero(TileOf(kv))
        /\ SrcOf(kv).w = 3 /\ SrcOf(kv).h = 1
        /\ OutOf(kv).w = 3 /\ OutOf(kv).h = 3

\* C2: convert places the source's top-left corner at ((max-w)/2, (max-h)/2),
\* truncating: every opaque source pixel (i, j) is the output pixel at
\* ((max-w)/2 + i, (max-h)/2 + j), and when max-w or max-h is odd the padding
\* on the right/bottom is one pixel larger than on the left/top.
C2_SourceIsCentredTruncating ==
    \A kv \in Conversions :
        LET s == SrcOf(kv)
            o == OutOf(kv)
            right  == o.w - s.w - Left(s)
            bottom == o.h - s.h - Top(s)
        IN  /\ \A q \in Coords(s.w, s.h) :
                  s.px[q].a = MaxChannel =>
                      o.px[<<Left(s) + q[1], Top(s) + q[2]>>] = s.px[q]
            /\ right - Left(s) = (Side(s) - s.w) % 2
            /\ bottom - Top(s) = (Side(s) - s.h) % 2

C2_Witness ==
    \E kv \in Conversions :
        LET s == SrcOf(kv)
            o == OutOf(kv)
        IN  /\ s.w = 2 /\ s.h = 1 /\ s.px[<<1, 0>>].a = MaxChannel
            /\ Top(s) = 0 /\ o.h - s.h - Top(s) = 1
            /\ o.px[<<1, 0>>] = s.px[<<1, 0>>]

C4_SourceOverwrites ==
    \A kv \in Conversions :
        \A q \in Coords(SrcOf(kv).w, SrcOf(kv).h) :
            SamePixel(OutOf(kv).px[<<Left(SrcOf(kv)) + q[1], Top(SrcOf(kv)) + q[2]>>],
                      SrcOf(kv).px[q])

\* C4, amended: every output pixel covered by the source is the source pixel
\* composited src-over onto the tiled background there: the source pixel
\* when it is opaque, the background when the source pixel is fully
\* transparent, and a mix of the two when it is partly transparent.
C4_SourceIsBlended ==
    \A kv \in Conversions :
        \A q \in Coords(SrcOf(kv).w, SrcOf(kv).h) :
            LET p  == <<Left(SrcOf(kv)) + q[1], Top(SrcOf(kv)) + q[2]>>
                sp == SrcOf(kv).px[q]
                op == OutOf(kv).px[p]
            IN  /\ sp.a = MaxChannel => op = sp
                /\ sp.a = 0 => op = Background(kv, p)
                /\ (0 < sp.a /\ sp.a < MaxChannel) =>
                       op = Mix(Background(kv, p), sp)

C4_Witness ==
    \E kv \in Conversions :
        /\ NonZero(TileOf(kv))
        /\ \E q \in Coords(SrcOf(kv).w, SrcOf(kv).h) :
               LET p == <<Left(SrcOf(kv)) + q[1], Top(SrcOf(kv)) + q[2]>>
               IN  /\ SrcOf(kv).px[q].a = 0
                   /\ Background(kv, p).a = MaxChannel
                   /\ OutOf(kv).px[p] = Background(kv, p)
        /\ \E q \in Coords(SrcOf(kv).w, SrcOf(kv).h) :
               LET p == <<Left(SrcOf(kv)) + q[1], Top(SrcOf(kv)) + q[2]>>
               IN  /\ SrcOf(kv).px[q].a = MaxChannel
                   /\ OutOf(kv).px[p] = SrcOf(kv).px[q]

-----------------------------------------------------------------------------
(* The batch driver. *)

\* The clicks that ran convert_files.
Requests == {k \in 1 .. Len(clicks) : clicks[k].msg # "Disabled"}

\* A file the Image Loader can load: its MIME type maps to a decoder and its
\* bytes are a valid encoding of that format.
Sound(f) ==
    \/ f.file_type = "image/png" /\ f.data.enc = "Png"
    \/ f.file_type = "image/jpeg" /\ f.data.enc = "Jpeg"

UsableTile(t) == t # NoTile /\ Sound(t) /\ NonZero(t.data.img)

ProcessedPending == \E n \in DOMAIN readers : readers[n].kind = "Processed"

RECURSIVE IsSubseq(_, _)
IsSubseq(s, t) ==
    IF s = <<>> THEN TRUE
    ELSE IF t = <<>> THEN FALSE
    ELSE IF Head(s) = Head(t) THEN IsSubseq(Tail(s), Tail(t))
    ELSE IsSubseq(s, Tail(t))

RECURSIVE SourcesGiven(_)
SourcesGiven(k) ==
    IF k = 0 THEN 0
    ELSE SourcesGiven(k - 1)
         + (IF clicks[k].msg = "ConvertedFiles" THEN Len(clicks[k].files) ELSE 0)

\* C5: in a batch with a usable tile, a source that fails to decode does not
\* abort the batch or crash the application: every other source of the batch
\* still yields its processed output.
C5_BatchIndependence ==
    \A k \in Requests :
        LET c == clicks[k]
        IN  (/\ UsableTile(c.tile)
             /\ \E i \in 1 .. Len(c.files) : ~Sound(c.files[i])
             /\ \E j \in 1 .. Len(c.files) : Sound(c.files[j]))
            => /\ c.msg = "ConvertedFiles"
               /\ ~crashed
               /\ \A j \in 1 .. Len(c.files) :
                      Sound(c.files[j]) =>
                          \E o \in 1 .. Len(c.out) : c.out[o].name = c.files[j].name

\* C6: with no tile loaded, or a tile whose bytes cannot be decoded, a
\* Convert request is a handled outcome: convert_files returns Msg::NoOp and
\* files, tile, new_files, readers and the flags are unchanged.
C6_NoUsableTileIsNoOp ==
    [][(/\ Len(clicks') = Len(clicks) + 1
        /\ clicks'[Len(clicks')].msg # "Disabled"
        /\ (tile = NoTile \/ tile.data.enc = "bad"))
       => (/\ clicks'[Len(clicks')].msg = "NoOp"
           /\ ~crashed'
           /\ UNCHANGED <<files, tile, new_files, readers, loading, converting>>)]_vars

\* C7: once the processed files of a batch have all been read, they stand
\* in new_files in the order of their sources in files, whatever the order
\* in which the reads completed.
C7_OutputsInSourceOrder ==
    \A k \in Batches :
        (k = Len(clicks) /\ ~clicks[k].busy /\ ~ProcessedPending)
        => IsSubseq(SubSeq(new_files, clicks[k].base + 1, Len(new_files)),
                    clicks[k].out)

\* C8 as stated: once no read is pending, new_files holds at most one
\* processed entry per entry of files.
C8_OneOutputPerSource ==
    DOMAIN readers = {} => Len(new_files) <= Len(files)

\* C8, amended: each Convert batch consumes each source once: new_files
\* never holds more than one processed entry per source and batch, that is,
\* more entries than the batches started were given sources.
C8_OneOutputPerSourceAndBatch ==
    Len(new_files) <= SourcesGiven(Len(clicks))

C8_Witness ==
    /\ DOMAIN readers = {}
    /\ Cardinality(Batches) = 2
    /\ Len(files) = 1
    /\ Len(new_files) = 2
    /\ new_files[1] = new_files[2]

\* C9: with a decoded tile of width 0 or height 0, compositing ends in an
\* error outcome for the item: no step by zero, no crash, and no output.
C9_ZeroTileIsAnError ==
    \A k \in Requests :
        LET c == clicks[k]
        IN  (/\ c.tile # NoTile /\ Sound(c.tile) /\ ~NonZero(c.tile.data.img)
             /\ c.files # <<>>)
            => /\ c.msg # "Panic"
               /\ c.msg # "ConvertedFiles"
               /\ ~crashed

\* C10: an image (tile or source) whose MIME type maps to no decoder, or
\* whose bytes are not a valid encoding of the declared format, is rejected
\* with an error value: nothing panics and no output is composited with it.
C10_UnloadableIsRejected ==
    \A k \in Requests :
        LET c == clicks[k]
        IN  c.tile # NoTile =>
               /\ (~Sound(c.tile) \/ \E i \in 1 .. Len(c.files) : ~Sound(c.files[i]))
                      => c.msg # "Panic"
               /\ ~Sound(c.tile) => c.out = <<>>
               /\ \A i \in 1 .. Len(c.files) :
                      ~Sound(c.files[i]) =>
                          \A o \in 1 .. Len(c.out) : c.out[o].name # c.files[i].name

-----------------------------------------------------------------------------
(* The readers map and the flags. *)

\* The names of the reads that were started and whose Loaded message has
\* not been processed: the reads pending in readers, and the reads aborted
\* when their entry was replaced, whose Loaded message never comes.
Unprocessed == DOMAIN readers \cup {r.name : r \in aborted}

\* C11: in every reachable state readers maps exactly the file names whose
\* read has been started and whose Loaded message has not yet been
\* processed, also when two reads with the same file name are in flight at
\* once.
C11_ReadersAreTheUnprocessedReads ==
    DOMAIN readers = Unprocessed

\* What C12 says of a drop or selection of `list` on the tile slot.
TileDropEffect(list) ==
    IF list = <<>>
    THEN UNCHANGED <<tile, files, new_files, readers, loading, converting>>
    ELSE /\ DOMAIN readers' = DOMAIN readers \cup {list[1].name}
         /\ readers'[list[1].name] = Read(list[1], "Tile")
         /\ \A n \in DOMAIN readers \ {list[1].name} : readers'[n] = readers[n]
         /\ UNCHANGED <<tile, files, new_files>>

\* C12: a drop or selection of n >= 1 files on the tile slot starts exactly
\* one read, for the first file of the list, and the other n - 1 files reach
\* neither tile, files nor readers; a drop or selection of zero files
\* leaves tile, files, new_files, readers and the flags unchanged.
C12_TileDropReadsFirstFile ==
    [][\A list \in Lists(TileFiles) : DropTile(list) => TileDropEffect(list)]_vars

\* Two files were dropped on the tile slot: one read is pending, the first
\* file's, and nothing else was read, aborted or stored.
C12_Witness ==
    /\ uploads = 2
    /\ DOMAIN readers = {"t"}
    /\ readers["t"] = Read(latest_tile, "Tile")
    /\ aborted = {}
    /\ files = <<>> /\ tile = NoTile /\ new_files = <<>>

-----------------------------------------------------------------------------
(* Batches. *)

\* C13: every source of a Convert batch is composited against one and the
\* same tile image, the one made from the tile held in the tile slot when
\* Convert was clicked; compositing one source does not change the tile the
\* next source sees, and the batch leaves the stored tile and files
\* unchanged.
C13_BatchSharesOneTile ==
    [][(/\ Len(clicks') = Len(clicks) + 1
        /\ clicks'[Len(clicks')].msg = "ConvertedFiles")
       => LET c == clicks'[Len(clicks')]
          IN  /\ c.tile = tile
              /\ c.files = files
              /\ Len(c.out) = Len(files)
              /\ \A i \in 1 .. Len(files) :
                     c.out[i].data.img =
                         Composite(files[i].data.img, BatchTile(tile.data.img))
              /\ UNCHANGED <<tile, files>>]_vars

\* A batch of two sources, both showing the tile of the slot behind them.
C13_Witness ==
    \E k \in Batches :
        LET c == clicks[k]
        IN  /\ variant = "main"
            /\ Len(c.files) = 2
            /\ c.files[1].data.img.w = 2 /\ c.files[1].data.img.h = 1
            /\ c.files[2].data.img.w = 1 /\ c.files[2].data.img.h = 2
            /\ c.tile = tile /\ c.files = files
            /\ c.out[1].data.img.px[<<0, 1>>] = tile.data.img.px[<<0, 1>>]
            /\ c.out[2].data.img.px[<<1, 0>>] = tile.data.img.px[<<1, 0>>]
            /\ tile.data.img.px[<<1, 0>>].a = MaxChannel

\* Every output of every batch carries the name of its source and either
\* image/png or its source's MIME tag, and holds PNG bytes; so does every
\* processed file read back into new_files.
OutputsAreNamedPng ==
    /\ \A k \in Batches :
           /\ Len(clicks[k].out) = Len(clicks[k].files)
           /\ \A i \in 1 .. Len(clicks[k].files) :
                  /\ clicks[k].out[i].name = clicks[k].files[i].name
                  /\ clicks[k].out[i].file_type
                         \in {"image/png", clicks[k].files[i].file_type}
                  /\ clicks[k].out[i].data.enc = "Png"
    /\ \A j \in 1 .. Len(new_files) :
           /\ new_files[j].data.enc = "Png"
           /\ \E k \in Batches : \E i \in 1 .. Len(clicks[k].out) :
                  new_files[j] = clicks[k].out[i]

\* The entries of files that have the name of new_files[j].
Namesakes(j) == {i \in 1 .. Len(files) : files[i].name = new_files[j].name}

\* C14 as stated: every processed output carries the name of its source and
\* a MIME tag that is image/png or the source's tag, its bytes are PNG, and
\* each entry of new_files has the same name as exactly one entry of files.
C14_OutputNamesOneSource ==
    /\ OutputsAreNamedPng
    /\ \A j \in 1 .. Len(new_files) : Cardinality(Namesakes(j)) = 1

\* C14, amended: every processed output carries the name of its source and
\* a MIME tag that is image/png or the source's tag, its bytes are PNG, and
\* each entry of new_files has the same name as at least one entry of files
\* (file names are not unique in files).
C14_OutputNamesItsSource ==
    /\ OutputsAreNamedPng
    /\ \A j \in 1 .. Len(new_files) : Namesakes(j) # {}

\* A processed file read back, of a source whose name two entries of files
\* bear.
C14_Witness ==
    \E j \in 1 .. Len(new_files) :
        /\ Cardinality(Namesakes(j)) = 2
        /\ new_files[j].data.enc = "Png"
        /\ new_files[j].file_type = "image/png"

\* C15: in app.rs, in every reachable state in which readers is empty (no
\* read pending), props.loading and props.converting are both false, so the
\* Convert button is enabled; from the initial state on, and after any
\* interleaving of uploads, Convert clicks and read completions.
C15_IdleMeansEnabled ==
    (variant = "app" /\ DOMAIN readers = {}) => (~loading /\ ~converting)

-----------------------------------------------------------------------------
(* Delivery of the reads. *)

\* The read of file f started as `kind`, and where its data is to be stored.
ReadOf(f, kind) ==
    [name |-> f.name, kind |-> kind, file_type |-> f.file_type, data |-> f.data]

StartedRead(f, kind) ==
    \/ f.name \in DOMAIN readers /\ readers[f.name] = Read(f, kind)
    \/ ReadOf(f, kind) \in aborted

\* C16: every read that is started eventually has its Loaded message
\* processed and its data stored in the matching slot: every file passed in
\* Msg::Files eventually appears in files, every file passed in Msg::Tile
\* eventually is the tile, and every processed file being read eventually
\* has an entry in new_files; also when two files of one name are read
\* concurrently.  (Read in the claim's favour: a crash ends the obligation.)
C16_EveryReadIsDelivered ==
    /\ \A f \in SourceFiles :
           StartedRead(f, "File") ~> (crashed \/ \E i \in 1 .. Len(files) : files[i] = f)
    /\ \A f \in TileFiles :
           StartedRead(f, "Tile") ~> (crashed \/ tile = f)
    /\ \A name \in Names :
           (name \in DOMAIN readers /\ readers[name].kind = "Processed")
               ~> (crashed \/ \E j \in 1 .. Len(new_files) : new_files[j].name = name)

-----------------------------------------------------------------------------
(* Overlapping batches. *)

\* C17: in app.rs a Convert batch is started only in a state where
\* props.loading and props.converting are both false; a click on Convert
\* while a tile or source read is pending, or while the processed files of
\* an earlier batch are being read back, produces no batch, so at most one
\* batch is in flight at any time.
C17_AppBatchesDoNotOverlap ==
    [][(variant = "app" /\ Len(clicks') = Len(clicks) + 1)
       => LET c == clicks'[Len(clicks')]
          IN  /\ c.msg = "ConvertedFiles" => (~loading /\ ~converting)
              /\ DOMAIN readers # {} =>
                     /\ c.msg \notin {"ConvertedFiles", "Panic"}
                     /\ UNCHANGED <<readers, new_files, converting>>]_vars

\* Convert was clicked in app.rs while the processed files of a batch were
\* being read back, and the click was dropped.
C17_Witness ==
    /\ variant = "app"
    /\ \E k \in 1 .. Len(clicks) :
           /\ clicks[k].busy
           /\ clicks[k].msg = "Disabled"
           /\ \E j \in Batches : j < k

\* C18: in main.rs the `converting` guard of convert_files prevents
\* overlapping batches: a Convert click made while the processed files of an
\* earlier batch are being read back starts no batch.
C18_MainBatchesDoNotOverlap ==
    \A k \in 1 .. Len(clicks) :
        (variant = "main" /\ clicks[k].busy) => clicks[k].msg # "ConvertedFiles"

-----------------------------------------------------------------------------
(* The tile slot. *)

\* Every tile read that was started has completed: none is pending and
\* none was aborted.
TileReadsCompleted ==
    /\ \A n \in DOMAIN readers : readers[n].kind # "Tile"
    /\ \A r \in aborted : r.kind # "Tile"

\* C19: the tile slot holds the most recently uploaded tile: once the reads
\* of all the tiles uploaded have completed, self.tile is the tile uploaded
\* last, whatever the order in which the reads completed.
C19_TileIsLatestUpload ==
    (latest_tile # NoTile /\ TileReadsCompleted) => tile = latest_tile

-----------------------------------------------------------------------------
(* The offsets of convert. *)

\* Sides of sources too large to build as pictures, up to 2^31 - 1.
WideSides == {1, 2, 3, 65535, 65536, 2147483646, 2147483647}

\* The arithmetic of convert on a source of w x h: max, the two differences
\* and the two offsets, as the code computes them.
OffsetsFit(w, h) ==
    LET max == Max(w, h)
        dx  == Offset(max, w)
        dy  == Offset(max, h)
    IN  /\ max - w >= 0 /\ max - h >= 0
        /\ dx >= 0 /\ dy >= 0
        /\ dx = 0 \/ dy = 0
        /\ dx + w <= max /\ dy + h <= max

\* C20: for every source of w x h the offset computation of convert never
\* underflows (max - w >= 0 and max - h >= 0, max = max(w, h)), at least one
\* of the offsets dx, dy is 0, and the overlaid region lies inside the
\* canvas (dx + w <= max, dy + h <= max), so that no source pixel is clipped.
C20_OffsetsStayInCanvas ==
    /\ \A w \in WideSides : \A h \in WideSides : OffsetsFit(w, h)
    /\ \A kv \in Conversions :
           LET s   == SrcOf(kv)
               max == Max(s.w, s.h)
           IN  /\ OffsetsFit(s.w, s.h)
               /\ OutOf(kv).w = max /\ OutOf(kv).h = max
               /\ \A q \in Coords(s.w, s.h) :
                      /\ <<Offset(max, s.w) + q[1], Offset(max, s.h) + q[2]>>
                             \in DOMAIN OutOf(kv).px
                      /\ s.px[q].a = MaxChannel =>
                             OutOf(kv).px[<<Offset(max, s.w) + q[1],
                                            Offset(max, s.h) + q[2]>>] = s.px[q]

\* A 1 x 3 source converted: dx = 1, dy = 0, and its last pixel stands at
\* (1, 2) of the 3 x 3 canvas.
C20_Witness ==
    \E kv \in Conversions :
        /\ SrcOf(kv).w = 1 /\ SrcOf(kv).h = 3
        /\ Offset(OutOf(kv).w, SrcOf(kv).w) = 1
        /\ Offset(OutOf(kv).h, SrcOf(kv).h) = 0
        /\ SrcOf(kv).px[<<0, 2>>].a = MaxChannel
        /\ OutOf(kv).px[<<1, 2>>] = SrcOf(kv).px[<<0, 2>>]

-----------------------------------------------------------------------------
(* The slots. *)

IsPrefix(s, t) == Len(s) <= Len(t) /\ SubSeq(t, 1, Len(s)) = s

\* The file a Loaded message for the pending read `name` carries.
Delivered(name) ==
    FileDetails(name, readers[name].file_type, readers[name].data)

\* C21: files and new_files are append-only and each Loaded message touches
\* only its own slot: a Loaded message of kind File appends one entry to
\* files and leaves tile and new_files unchanged, kind Processed appends one
\* entry to new_files and leaves tile and files unchanged, kind Tile
\* replaces tile and leaves files and new_files unchanged; no message ever
\* removes or reorders an entry of files or new_files; Msg::NoOp changes
\* nothing and requests no re-render.  (A Loaded message is the step that
\* takes its name out of readers.)
C21_SlotsAreAppendOnly ==
    [][/\ IsPrefix(files, files') /\ IsPrefix(new_files, new_files')
       /\ \A name \in DOMAIN readers \ DOMAIN readers' :
              /\ readers[name].kind = "File" =>
                     /\ files' = Append(files, Delivered(name))
                     /\ UNCHANGED <<tile, new_files>>
              /\ readers[name].kind = "Processed" =>
                     /\ new_files' = Append(new_files, Delivered(name))
                     /\ UNCHANGED <<tile, files>>
              /\ readers[name].kind = "Tile" =>
                     /\ tile' = Delivered(name)
                     /\ UNCHANGED <<files, new_files>>
       /\ (Len(clicks') = Len(clicks) + 1 /\ clicks'[Len(clicks')].msg = "NoOp") =>
              /\ ~clicks'[Len(clicks')].render
              /\ UNCHANGED <<files, tile, new_files, readers, loading, converting>>]_vars

\* Two sources, a tile and a processed file were loaded, the second source
\* after the first, and a Convert click ended in Msg::NoOp.
C21_Witness ==
    /\ Len(files) = 2 /\ files[1].name # files[2].name
    /\ tile # NoTile
    /\ Len(new_files) = 1
    /\ \E k \in 1 .. Len(clicks) : clicks[k].msg = "NoOp" /\ ~clicks[k].render

====
